---- MODULE Spec2Model ----
(***************************************************************************)
(* A model of the download crate (src/download/src/lib.rs): the backend    *)
(* fallback loops `download` / `download_to_path`, the file sink           *)
(* `download_to_path_with_backend`, the curl and hyper based backends and  *)
(* the proxy resolver `proxy_from_env`.                                    *)
(*                                                                         *)
(* One call of an entry point is one behaviour.  The build configuration   *)
(* (which backends are compiled in), the URL, the resource behind it and   *)
(* the state of the destination path are chosen in Init; the outcome of    *)
(* every fallible operating-system or library call and of every callback   *)
(* invocation is chosen when the call is made.                             *)
(***************************************************************************)
EXTENDS Integers, Sequences, FiniteSets, TLC

\* Longest resource body (bytes) the model downloads.
MaxLen == 3
\* Size of the read buffer, scaled down from 0x10000 (lib.rs:571, lib.rs:639);
\* MaxLen > BufferSize so that a body spans more than one full chunk.
BufferSize == 2
\* Most Content-Length header lines libcurl hands to header_function in one
\* transfer (one per response when redirects are followed).
MaxHeaders == 2

VARIABLES
    entry,      \* "download" or "download_to_path": the entry point called
    haveCb,     \* the caller passed Some(callback) (always TRUE for download)
    compiled,   \* [Backend -> BOOLEAN]: cargo features curl-/hyper-/rustls-backend
    scheme,     \* url.scheme()
    status,     \* the HTTP status the server answers with (0 when not http)
    src,        \* the bytes of the resource (file content or response body)
    srcIsFile,  \* for a file: URL, whether the local path names a regular file
    pc,         \* position of the call
    idx,        \* index into BACKENDS of the current loop iteration
    attempts,   \* history: the backends invoked so far, in order
    outcomes,   \* history: the Result of each finished attempt, in order
    ret,        \* the Result in flight (of the backend, then of the attempt)
    result,     \* the Result the entry point returned
    pathIsFile, \* path.is_file(): a regular file exists at the destination
    fileData,   \* the bytes of that file
    synced,     \* sync_data() succeeded after the last write
    emitted,    \* history: the events the backend passed to its callback, this attempt
    cbRet,      \* history: what the callback returned for each of them
    events,     \* history: the events passed on to the caller's callback, this attempt
    cberr,      \* curl: the RefCell<Option<Error>> of lib.rs:152
    aborted,    \* curl: libcurl saw a callback return that makes it abort
    pos,        \* bytes of src handed out so far in this attempt
    headers,    \* curl: Content-Length header lines seen so far in this attempt
    netEntered, \* history: some backend entered the network path
    creates,    \* history: successful File::create calls
    removed,    \* history: outcome of the last cleanup: "none", "ok", "failed", "skipped"
    atStart,    \* history: the file at the destination when the attempt was called
    env,        \* the process environment: [ProxyVars -> String or Unset]
    proxy,      \* the last value proxy_from_env returned
    client,     \* the hyper Client built for the request: "none" before
    easy,       \* curl: [Threads -> the options of the thread's cached Easy handle]
    borrowed,   \* curl: [Threads -> the RefCell around the handle is mutably borrowed]
    stack,      \* curl: [Threads -> the curl::download calls in progress, innermost last]
    started,    \* curl: the number of curl::download calls made so far
    last,       \* curl: [Threads -> URL and outcome of the thread's last finished call]
    tlsKind,    \* TLS adapter: "native" (mod hyper), "rustls" (mod rustls), "none"
    mutex,      \* TLS adapter: the Mutex inside the Arc: who holds it, whether poisoned
    call,       \* TLS adapter: [Clones -> the operation the clone's owner is in]
    session,    \* TLS adapter: the TLS session's buffers (plaintext in, TLS bytes out)
    wire,       \* TLS adapter: records the peer sent that the stream has not yielded yet
    sent,       \* TLS adapter: history, records handed to the underlying stream
    issued      \* TLS adapter: history, the number of operations called so far

vars == <<entry, haveCb, compiled, scheme, status, src, srcIsFile, pc, idx,
          attempts, outcomes, ret, result, pathIsFile, fileData, synced, emitted, cbRet,
          events, cberr, aborted, pos, headers, netEntered, creates, removed, atStart,
          env, proxy, client, easy, borrowed, stack, started, last,
          tlsKind, mutex, call, session, wire, sent, issued>>

config  == <<entry, haveCb, compiled, scheme, status, src, srcIsFile>>
fileSys == <<pathIsFile, fileData, synced, creates, removed, atStart>>
history == <<emitted, cbRet, events>>
curlSt  == <<cberr, aborted, headers>>
proxySt == <<env, proxy, client>>
handleSt == <<easy, borrowed, stack, started, last>>
tlsSt == <<tlsKind, mutex, call, session, wire, sent, issued>>

----------------------------------------------------------------------------
\* The cached libcurl handle (curl::download's thread_local EASY)

\* The threads that call curl::download
Threads == {"t1", "t2"}

\* The URLs they ask for
Urls == {"http://a.example/", "http://b.example/"}

\* Duration::new(30, 0) of connect_timeout, in seconds
ConnectTimeout == 30
\* low_speed_limit(10), in bytes
LowSpeedLimit == 10
\* Duration::new(30, 0) of low_speed_time, in seconds
LowSpeedTime == 30

\* Easy::new(): no URL, libcurl's defaults (0 stands for "not set"), no
\* callbacks (callbacks names the call whose closures are installed)
NewEasy ==
    [url |-> "", follow_location |-> FALSE, connect_timeout |-> 0,
     low_speed_limit |-> 0, low_speed_time |-> 0, callbacks |-> 0]

\* No call has finished on the thread yet
NoCall == [url |-> "", outcome |-> "none"]

\* No thread has touched its handle yet: the thread_local is initialised on
\* first use with RefCell::new(Easy::new())
HandleUnused ==
    /\ easy = [t \in Threads |-> NewEasy]
    /\ borrowed = [t \in Threads |-> FALSE]
    /\ stack = [t \in Threads |-> <<>>]
    /\ started = 0
    /\ last = [t \in Threads |-> NoCall]

----------------------------------------------------------------------------
\* The TLS stream adapters (hyper::NativeSslStream, rustls::NativeSslStream)

\* The clones of one adapter value: they share the Arc<Mutex<..>>
Clones == {"c1", "c2"}

\* The operations of NetworkStream, Read and Write
StreamOps == {"peer_addr", "set_read_timeout", "set_write_timeout", "close",
              "read", "write", "flush"}

\* Mutex::new(..): not held, not poisoned
FreeMutex == [holder |-> "none", poisoned |-> FALSE]

\* The owner of a clone is not inside any operation (lap is the parity of the
\* iterations the operation's while loop has made)
Idle == [op |-> "none", pc |-> "idle", res |-> "none", touched |-> FALSE, lap |-> 0]

\* A session with nothing buffered
EmptySession == [plain |-> 0, out |-> 0]

\* No adapter has been built
TlsUnused ==
    /\ tlsKind = "none"
    /\ mutex = FreeMutex
    /\ call = [c \in Clones |-> Idle]
    /\ session = EmptySession
    /\ wire = 0
    /\ sent = 0
    /\ issued = 0

----------------------------------------------------------------------------
\* Errors and results (error_chain's Error / ErrorKind as used in lib.rs)

Err(kind, name, code, cause) ==
    [kind |-> kind, name |-> name, code |-> code, cause |-> cause]

\* Ok(())
Ok == Err("Ok", "", 0, "")
\* ErrorKind::BackendUnavailable(name).into()
BackendUnavailable(name) == Err("BackendUnavailable", name, 0, "")
\* ErrorKind::FileNotFound.into()
FileNotFound == Err("FileNotFound", "", 0, "")
\* ErrorKind::HttpStatus(code).into()
HttpStatus(code) == Err("HttpStatus", "", code, "")
\* "message".into()
Msg(m) == Err("Msg", m, 0, "")
\* foreign_result.chain_err(|| "message"): a new error wrapping the cause
ChainErr(cause, m) == Err("Msg", m, 0, cause)
\* the value Option::None
None == Err("None", "", 0, "")

IsErr(r) == r.kind \notin {"Ok", "None"}

\* const BACKENDS
BACKENDS == <<"Curl", "Hyper", "Rustls">>
Backend == {BACKENDS[i] : i \in 1..Len(BACKENDS)}

\* The name each stub puts in its BackendUnavailable error
StubName(b) ==
    CASE b = "Curl" -> "curl"
      [] b = "Hyper" -> "hyper"
      [] b = "Rustls" -> "rustls"

\* No file at the destination (path.is_file() is false)
NoFile == [isFile |-> FALSE, data |-> <<>>]

\* Events
ContentLength(n) == [type |-> "ContentLength", len |-> n, data |-> <<>>]
Data(d) == [type |-> "Data", len |-> 0, data |-> d]

RECURSIVE Concat(_)
\* The concatenation, in order, of the bytes of the data events of a sequence
Concat(evs) ==
    IF evs = <<>> THEN <<>>
    ELSE (IF Head(evs).type = "Data" THEN Head(evs).data ELSE <<>>)
         \o Concat(Tail(evs))

Min(a, b) == IF a < b THEN a ELSE b

----------------------------------------------------------------------------
\* The proxy resolver (hyper_base::proxy_from_env) and what it reads

\* The environment variables a process may have set.  HTTP_PROXY is one of
\* them although proxy_from_env never asks for it.
ProxyVars == {"https_proxy", "HTTPS_PROXY", "http_proxy", "HTTP_PROXY",
              "all_proxy", "ALL_PROXY"}

\* The value of an environment variable, by the structure of its text:
\* "<scheme>://<host>:<port>", with host "" when the text names no host and
\* port -1 when the text writes no port; scheme "" is a text with no scheme;
\* unicode is FALSE for an OsString that is not valid Unicode.
EnvText(unicode, sch, host, port) ==
    [set |-> TRUE, unicode |-> unicode, scheme |-> sch, host |-> host, port |-> port]
\* var_os() returned None
Unset == [set |-> FALSE, unicode |-> TRUE, scheme |-> "", host |-> "", port |-> -1]
\* the text ""
EmptyText == EnvText(TRUE, "", "", -1)

ProxyValues ==
    { EnvText(TRUE, "http", "proxy.example", 9999),  \* http://proxy.example:9999
      EnvText(TRUE, "http", "other.example", -1),    \* http://other.example
      EnvText(TRUE, "http", "third.example", 80),    \* http://third.example:80
      EnvText(TRUE, "", "garbage", -1),              \* garbage
      EnvText(TRUE, "mailto", "", -1),               \* mailto:x
      EmptyText,                                     \* the empty text
      EnvText(FALSE, "", "", -1) }                   \* bytes that are not Unicode

EmptyEnv == [v \in ProxyVars |-> Unset]

\* Mutant: a value that is not Unicode or is empty counts as not set, so
\* the next setting in priority order is taken instead
var_os_skip_unusable(e, name) ==
    IF ~e[name].set \/ ~e[name].unicode \/ e[name] = EmptyText THEN Unset
    ELSE e[name]

\* var_os(name).map(|ref v| v.to_str().unwrap_or("").to_string())
var_os(e, name) ==
    IF ~e[name].set THEN Unset
    ELSE IF e[name].unicode THEN e[name] ELSE EmptyText

\* Option::or
OrElse(a, b) == IF a.set THEN a ELSE b

\* The url crate's default port of a scheme (-1: none)
DefaultPort(sch) ==
    CASE sch = "http" -> 80
      [] sch = "https" -> 443
      [] OTHER -> -1

\* Url::parse: fails on a text with no scheme (a relative URL without a base)
\* and on an http(s) URL with an empty host; the parsed Url reports no port
\* when the written port is the scheme's default.
UrlParse(text) ==
    IF text.scheme = "" THEN [ok |-> FALSE, host |-> "", port |-> -1]
    ELSE IF text.scheme \in {"http", "https"} /\ text.host = ""
         THEN [ok |-> FALSE, host |-> "", port |-> -1]
    ELSE [ok |-> TRUE, host |-> text.host,
          port |-> IF text.port = DefaultPort(text.scheme) THEN -1 ELSE text.port]

\* Option<(String, u16)>
NoProxy == [some |-> FALSE, host |-> "", port |-> 0]
SomeProxy(host, port) == [some |-> TRUE, host |-> host, port |-> port]

\* let mut maybe_https_proxy ... (lib.rs:593-596)
maybe_https_proxy(e) == OrElse(var_os(e, "https_proxy"), var_os(e, "HTTPS_PROXY"))
\* Mutant: the upper-case HTTP_PROXY is consulted as well
maybe_http_proxy_both(e) == OrElse(var_os(e, "http_proxy"), var_os(e, "HTTP_PROXY"))

\* let maybe_http_proxy ... (lib.rs:597)
maybe_http_proxy(e) == var_os(e, "http_proxy")
\* let mut maybe_all_proxy ... (lib.rs:598-601)
maybe_all_proxy(e) == OrElse(var_os(e, "all_proxy"), var_os(e, "ALL_PROXY"))

\* the match on url.scheme() (lib.rs:602-606)
proxy_setting(sch, e) ==
    CASE sch = "https" ->
            OrElse(maybe_https_proxy(e), OrElse(maybe_http_proxy(e), maybe_all_proxy(e)))
      [] sch = "http" -> OrElse(maybe_http_proxy(e), maybe_all_proxy(e))
      [] OTHER -> maybe_all_proxy(e)

\* proxy_from_env (lib.rs:590-615)
proxy_from_env(sch, e) ==
    LET url_value == proxy_setting(sch, e)
        proxy_url == UrlParse(url_value)
    IN  IF url_value.set /\ proxy_url.ok /\ proxy_url.host # ""
        THEN SomeProxy(proxy_url.host,
                       IF proxy_url.port = -1 THEN 8080 ELSE proxy_url.port)
        ELSE NoProxy

\* The match on url.scheme() that builds the client (lib.rs:546-563): through
\* the proxy when maybe_proxy is Some, a direct connection when it is None,
\* no client for any other scheme.
ClientFor(sch, p) ==
    CASE sch = "https" -> IF p.some THEN "https_via_proxy" ELSE "https_direct"
      [] sch = "http" -> IF p.some THEN "http_via_proxy" ELSE "http_direct"
      [] OTHER -> "unsupported"

----------------------------------------------------------------------------
\* The callbacks

\* The error value of the caller's own callback
CallbackFailure == Msg("callback failed")

\* What the caller's callback may return for an event: success, its own
\* error, or an error it builds with the public kind BackendUnavailable.
CallerResults == {Ok, CallbackFailure, BackendUnavailable("caller")}

\* file.borrow_mut().write_all(data) (lib.rs:91): the data is appended, or the
\* write fails after a proper prefix of a non-empty chunk went to disk.
WriteAll(old, data) ==
    {[ok |-> TRUE, data |-> old \o data]}
    \cup {[ok |-> FALSE, data |-> old \o SubSeq(data, 1, j)] : j \in 0..(Len(data) - 1)}

\* What the caller's callback receives and answers (lib.rs:94-97)
PassOn(ev, data) ==
    IF haveCb
    THEN {[res |-> r, data |-> data, user |-> TRUE] : r \in CallerResults}
    ELSE {[res |-> Ok, data |-> data, user |-> FALSE]}

\* The error of a failed write to the destination file (lib.rs:91-92)
WriteFailure == ChainErr("io", "unable to write download to disk")

\* Mutant: the event is passed on first and its bytes are written afterwards
SinkCallbackNotifyFirst(ev) ==
    IF ev.type = "Data"
    THEN UNION { IF o.res # Ok THEN {o}
                 ELSE {[res |-> IF w.ok THEN Ok ELSE WriteFailure,
                        data |-> w.data, user |-> o.user]
                       : w \in WriteAll(fileData, ev.data)}
                 : o \in PassOn(ev, fileData) }
    ELSE PassOn(ev, fileData)

\* The closure download_to_path_with_backend hands to the backend
\* (lib.rs:89-98): write a data event's bytes, then pass the event on.
SinkCallback(ev) ==
    IF ev.type = "Data"
    THEN UNION { IF w.ok THEN PassOn(ev, w.data)
                 ELSE {[res |-> WriteFailure, data |-> w.data, user |-> FALSE]}
                 : w \in WriteAll(fileData, ev.data) }
    ELSE PassOn(ev, fileData)

\* The outcomes of one invocation of the backend's `callback` parameter
Callback(ev) ==
    IF entry = "download" THEN PassOn(ev, fileData) ELSE SinkCallback(ev)

\* One invocation with outcome o: its effect on the file and on the histories
Invoke(ev, o) ==
    /\ o \in Callback(ev)
    /\ fileData' = o.data
    /\ synced' = IF o.data = fileData THEN synced ELSE FALSE
    /\ emitted' = Append(emitted, ev)
    /\ cbRet' = Append(cbRet, o.res)
    /\ events' = IF o.user THEN Append(events, ev) ELSE events
    /\ UNCHANGED <<pathIsFile, creates, removed, atStart>>

----------------------------------------------------------------------------
\* The fallback loops

\* Mutant: the loop's last error is returned when the loop ends
LastError == ret

\* Err("no working backends".into()) (lib.rs:45 and lib.rs:60)
NoWorkingBackends == Msg("no working backends")

\* for &backend in BACKENDS { ... } Err("no working backends".into())
\* (lib.rs:37, 45 and lib.rs:52, 60): start the next iteration or leave the loop
LoopHead(first) ==
    /\ pc = "loop"
    /\ IF idx <= Len(BACKENDS)
       THEN /\ pc' = first
            /\ attempts' = Append(attempts, BACKENDS[idx])
            /\ emitted' = <<>>
            /\ cbRet' = <<>>
            /\ events' = <<>>
            /\ removed' = "none"
            /\ atStart' = [isFile |-> pathIsFile, data |-> fileData]
            /\ UNCHANGED result
       ELSE /\ pc' = "returned"
            /\ result' = NoWorkingBackends
            /\ UNCHANGED <<attempts, history, removed, atStart>>
    /\ UNCHANGED <<config, idx, outcomes, ret, pathIsFile, fileData, synced, creates,
                   curlSt, pos, netEntered, proxySt, handleSt, tlsSt>>

\* The index the loop continues with after a BackendUnavailable outcome
NextIndex(i) == i + 1

\* Mutant: every error, not only BackendUnavailable, lets the loop go on
MatchContinueOnError ==
    /\ pc = "match"
    /\ IF IsErr(ret)
       THEN /\ idx' = NextIndex(idx)
            /\ pc' = "loop"
            /\ UNCHANGED result
       ELSE /\ result' = ret
            /\ pc' = "returned"
            /\ UNCHANGED idx
    /\ outcomes' = Append(outcomes, ret)
    /\ UNCHANGED <<config, attempts, ret, fileSys, history, curlSt, pos,
                   netEntered, proxySt, handleSt, tlsSt>>

\* match ... { Err(Error(ErrorKind::BackendUnavailable(_), _)) => (),
\*             Err(e) => return Err(e), Ok(()) => return Ok(()) }
\* (lib.rs:38-42 and lib.rs:53-57)
Match ==
    /\ pc = "match"
    /\ IF ret.kind = "BackendUnavailable"
       THEN /\ idx' = NextIndex(idx)
            /\ pc' = "loop"
            /\ UNCHANGED result
       ELSE /\ result' = ret
            /\ pc' = "returned"
            /\ UNCHANGED idx
    /\ outcomes' = Append(outcomes, ret)
    /\ UNCHANGED <<config, attempts, ret, fileSys, history, curlSt, pos,
                   netEntered, proxySt, handleSt, tlsSt>>

\* download (lib.rs:34-46)
download_loop == entry = "download" /\ LoopHead("dispatch")
download_match == entry = "download" /\ Match

\* download_to_path (lib.rs:48-61)
download_to_path_loop == entry = "download_to_path" /\ LoopHead("create")
download_to_path_match == entry = "download_to_path" /\ Match

----------------------------------------------------------------------------
\* The file sink: download_to_path_with_backend (lib.rs:74-112)

\* Mutant: the file is opened for writing without being truncated
CreatedDataKept(old) == old

\* chain_err(|| "error creating file for download") (lib.rs:86-87)
CreateError == ChainErr("io", "error creating file for download")

\* Mutant: the error of File::create is returned past the map_err closure
AfterCreateErrorNoCleanup == "match"

\* Where the try! of lib.rs:86 leaves to: the closure of lib.rs:85 ends and
\* map_err (lib.rs:104) runs
AfterCreateError == "cleanup"

\* The content of the file File::create returns: an existing file is truncated
CreatedData(old) == <<>>

\* File::create(&path).chain_err(...) (lib.rs:86-87)
create_file ==
    /\ pc = "create"
    /\ \/ /\ pathIsFile' = TRUE
          /\ fileData' = CreatedData(fileData)
          /\ synced' = FALSE
          /\ creates' = creates + 1
          /\ pc' = "dispatch"
          /\ UNCHANGED ret
       \/ /\ ret' = CreateError
          /\ pc' = AfterCreateError
          /\ UNCHANGED <<pathIsFile, fileData, synced, creates>>
    /\ UNCHANGED <<config, idx, attempts, outcomes, result, removed, atStart, history, curlSt, pos,
                   netEntered, proxySt, handleSt, tlsSt>>

\* Mutant: a backend error leaves through a try! outside the closure, past
\* the map_err that removes the file
AfterBackendNoCleanup(r) ==
    IF entry = "download" THEN "match"
    ELSE IF r = Ok THEN "sync" ELSE "match"

\* Where the closure of lib.rs:85 goes when download_with_backend returned r
\* (the try! of lib.rs:89); download itself goes to its match
AfterBackend(r) ==
    IF entry = "download" THEN "match"
    ELSE IF r = Ok THEN "sync" ELSE "cleanup"

\* download_with_backend returns to its caller (lib.rs:38, lib.rs:89)
backend_return ==
    /\ pc = "backend_ret"
    /\ pc' = AfterBackend(ret)
    /\ UNCHANGED <<config, idx, attempts, outcomes, ret, result, fileSys, history, curlSt,
                   pos, netEntered, proxySt, handleSt, tlsSt>>

\* file.borrow_mut().sync_data().chain_err(...); Ok(()) (lib.rs:100-103)
sync_file ==
    /\ pc = "sync"
    /\ \/ /\ synced' = TRUE
          /\ ret' = Ok
          /\ pc' = "match"
       \/ /\ ret' = ChainErr("io", "unable to sync download to disk")
          /\ pc' = "cleanup"
          /\ UNCHANGED synced
    /\ UNCHANGED <<config, idx, attempts, outcomes, result, pathIsFile, fileData, creates,
                   removed, atStart, history, curlSt, pos, netEntered, proxySt, handleSt,
                   tlsSt>>

\* The error map_err returns (lib.rs:110)
MapErr(e) == e

\* .map_err(|e| { if path.is_file() { let _ = fs::remove_file(path); } e })
\* (lib.rs:104-111); remove_file may fail and its result is dropped
cleanup ==
    /\ pc = "cleanup"
    /\ IF pathIsFile
       THEN \/ /\ pathIsFile' = FALSE
               /\ fileData' = <<>>
               /\ synced' = FALSE
               /\ removed' = "ok"
            \/ /\ removed' = "failed"
               /\ UNCHANGED <<pathIsFile, fileData, synced>>
       ELSE /\ removed' = "skipped"
            /\ UNCHANGED <<pathIsFile, fileData, synced>>
    /\ ret' = MapErr(ret)
    /\ pc' = "match"
    /\ UNCHANGED <<config, idx, attempts, outcomes, result, creates, atStart, history, curlSt, pos,
                   netEntered, proxySt, handleSt, tlsSt>>

----------------------------------------------------------------------------
\* The backends

\* download_with_backend (lib.rs:63-72): the module whose download runs for
\* backend b in this build: the real one, or the stub compiled in its place
download_with_backend(b) ==
    IF ~compiled[b] THEN "stub"
    ELSE CASE b = "Curl" -> "curl"
           [] b = "Hyper" -> "hyper_base"
           [] b = "Rustls" -> "hyper_base"

Dispatched(m) == pc = "dispatch" /\ download_with_backend(BACKENDS[idx]) = m

\* curl::download / hyper::download / rustls::download of a build without the
\* feature (lib.rs:655-694)
stub_download ==
    /\ Dispatched("stub")
    /\ ret' = BackendUnavailable(StubName(BACKENDS[idx]))
    /\ pc' = "backend_ret"
    /\ UNCHANGED <<config, idx, attempts, outcomes, result, fileSys, history, curlSt, pos,
                   netEntered, proxySt, handleSt, tlsSt>>

\* ---- curl::download (lib.rs:129-216)

CurlSetupErrors ==
    {"failed to set url", "failed to set follow redirects",
     "failed to set connect timeout", "failed to set low speed limit",
     "failed to set low speed time", "failed to set write", "failed to set header"}

\* Borrow the handle, set the options and the two callbacks (lib.rs:138-187)
curl_setup ==
    /\ Dispatched("curl")
    /\ \/ /\ pc' = "perform"
          /\ UNCHANGED ret
       \/ /\ \E m \in CurlSetupErrors : ret' = ChainErr("curl", m)
          /\ pc' = "backend_ret"
    /\ cberr' = None
    /\ aborted' = FALSE
    /\ headers' = 0
    /\ pos' = 0
    /\ UNCHANGED <<config, idx, attempts, outcomes, result, fileSys, history, netEntered,
                   proxySt, handleSt, tlsSt>>

\* libcurl can read the resource: it knows the scheme, and a file: URL names
\* a file
CurlReadable == scheme # "data" /\ (scheme = "file" => srcIsFile)

\* header_function (lib.rs:170-187) called with a "Content-Length: n" line:
\* the callback's error is stored and false is returned, which aborts
curl_header ==
    /\ pc = "perform" /\ ~aborted /\ CurlReadable
    /\ pos = 0 /\ \A i \in 1..Len(emitted) : emitted[i].type # "Data"
    /\ headers < MaxHeaders
    /\ headers' = headers + 1
    /\ \E o \in Callback(ContentLength(Len(src))) :
          /\ Invoke(ContentLength(Len(src)), o)
          /\ IF o.res = Ok
             THEN UNCHANGED <<cberr, aborted>>
             ELSE cberr' = o.res /\ aborted' = TRUE
    /\ UNCHANGED <<config, pc, idx, attempts, outcomes, ret, result, pos, netEntered, proxySt, handleSt, tlsSt>>

\* What write_function returns to libcurl (lib.rs:159-165)
WriteFunctionReturn(res, data) == IF res = Ok THEN Len(data) ELSE 0

\* write_function (lib.rs:158-166) called with the next bytes of the body, or
\* once with no bytes when the body is empty; libcurl aborts the transfer
\* when the returned count differs from the count it passed
curl_write ==
    /\ pc = "perform" /\ ~aborted /\ CurlReadable
    /\ \E k \in 0..Min(BufferSize, Len(src) - pos) :
          /\ k = 0 => (Len(src) = 0 /\ \A i \in 1..Len(emitted) : emitted[i].type # "Data")
          /\ LET data == SubSeq(src, pos + 1, pos + k) IN
             \E o \in Callback(Data(data)) :
                /\ Invoke(Data(data), o)
                /\ cberr' = IF o.res = Ok THEN cberr ELSE o.res
                /\ aborted' = (WriteFunctionReturn(o.res, data) # Len(data))
                /\ pos' = IF o.res = Ok THEN pos + k ELSE pos
    /\ UNCHANGED <<config, pc, idx, attempts, outcomes, ret, result, headers, netEntered, proxySt, handleSt, tlsSt>>

\* The or_else closure on transfer.perform() (lib.rs:191-205), e the kind of
\* libcurl's error
PerformError(e) ==
    IF cberr # None THEN cberr
    ELSE IF e = "couldnt_read_file" THEN Err("FileNotFound", "", 0, "curl")
    ELSE ChainErr("curl", "error during download")

\* The errors transfer.perform() may end with in the current state
PerformFailures ==
    IF aborted THEN {"write_error"}
    ELSE IF scheme = "file" /\ ~srcIsFile THEN {"couldnt_read_file"}
    ELSE IF scheme = "data" THEN {"unsupported_protocol"}
    ELSE {"recv_error"}

\* transfer.perform() returns (lib.rs:191-206)
curl_perform ==
    /\ pc = "perform"
    /\ \/ /\ ~aborted /\ CurlReadable /\ pos = Len(src)
          /\ pc' = "response_code"
          /\ UNCHANGED ret
       \/ /\ \E e \in PerformFailures : ret' = PerformError(e)
          /\ pc' = "backend_ret"
    /\ UNCHANGED <<config, idx, attempts, outcomes, result, fileSys, history, curlSt, pos,
                   netEntered, proxySt, handleSt, tlsSt>>

\* Result for a response code (lib.rs:210-214)
CodeResult(code) == IF code # 200 /\ code # 0 THEN HttpStatus(code) ELSE Ok

\* handle.response_code() and the check of the code (lib.rs:208-214)
curl_response_code ==
    /\ pc = "response_code"
    /\ \/ ret' = CodeResult(status)
       \/ ret' = ChainErr("curl", "failed to get response code")
    /\ pc' = "backend_ret"
    /\ UNCHANGED <<config, idx, attempts, outcomes, result, fileSys, history, curlSt, pos,
                   netEntered, proxySt, handleSt, tlsSt>>

\* ---- hyper_base::download (lib.rs:525-588), behind hyper::download
\* (lib.rs:242-246) and rustls::download (lib.rs:372-376)

\* download_from_file_url up to the opened file (lib.rs:625-639), for a file:
\* URL; its error leaves download through the try! of lib.rs:532
hyper_file_open ==
    /\ Dispatched("hyper_base")
    /\ scheme = "file"
    /\ \/ /\ ret' = Msg("bogus file url")
          /\ pc' = "backend_ret"
       \/ /\ ~srcIsFile
          /\ ret' = FileNotFound
          /\ pc' = "backend_ret"
       \/ /\ srcIsFile
          /\ ret' = ChainErr("io", "unable to open downloaded file")
          /\ pc' = "backend_ret"
       \/ /\ srcIsFile
          /\ pc' = "file_loop"
          /\ UNCHANGED ret
    /\ pos' = 0
    /\ UNCHANGED <<config, idx, attempts, outcomes, result, fileSys, history, curlSt,
                   netEntered, proxySt, handleSt, tlsSt>>

\* The byte counts io::Read::read may return with n bytes left and a buffer
\* of BufferSize bytes: 0 only at the end, else any count that fits
ReadCounts(n) == IF n = 0 THEN {0} ELSE 1..Min(BufferSize, n)

\* Mutant: the whole buffer is handed on, not only the bytes just read
ChunkWholeBuffer(p, bytes_read) ==
    SubSeq(src, p + 1, p + bytes_read) \o [i \in 1..(BufferSize - bytes_read) |-> 0]

\* &buffer[0..bytes_read] after a read at offset p (lib.rs:583, lib.rs:644)
Chunk(p, bytes_read) == SubSeq(src, p + 1, p + bytes_read)

\* One iteration of a read loop (lib.rs:640-645 and lib.rs:578-587): the read
\* fails with message m, or returns 0 bytes and the loop ends with Ok, or
\* returns data that goes to the callback, whose error ends the download
ReadLoop(m) ==
    \/ /\ ret' = ChainErr("io", m)
       /\ pc' = "backend_ret"
       /\ UNCHANGED <<fileSys, history, pos>>
    \/ \E bytes_read \in ReadCounts(Len(src) - pos) :
          IF bytes_read = 0
          THEN /\ ret' = Ok
               /\ pc' = "backend_ret"
               /\ UNCHANGED <<fileSys, history, pos>>
          ELSE LET data == Chunk(pos, bytes_read) IN
               \E o \in Callback(Data(data)) :
                  /\ Invoke(Data(data), o)
                  /\ pos' = pos + bytes_read
                  /\ IF o.res = Ok
                     THEN UNCHANGED <<pc, ret>>
                     ELSE ret' = o.res /\ pc' = "backend_ret"

\* The loop of download_from_file_url and the return of lib.rs:533
hyper_file_read ==
    /\ pc = "file_loop"
    /\ ReadLoop("unable to read downloaded file")
    /\ UNCHANGED <<config, idx, attempts, outcomes, result, curlSt, netEntered, proxySt, handleSt, tlsSt>>

\* The network path up to the first body read (lib.rs:536-576): certificates,
\* proxy, client, request, status check and the content-length event.  With
\* the rustls backend an https request reaches wrap_client, whose
\* global_config() panics in find_root_cert_paths (lib.rs:417-419).
hyper_request ==
    /\ Dispatched("hyper_base")
    /\ scheme # "file"
    /\ netEntered' = TRUE
    /\ proxy' = proxy_from_env(scheme, env)
    /\ client' = ClientFor(scheme, proxy_from_env(scheme, env))
    /\ pos' = 0
    /\ \/ /\ scheme \notin {"https", "http"}
          /\ ret' = Msg("unsupported URL scheme")
          /\ pc' = "backend_ret"
          /\ UNCHANGED <<fileSys, history>>
       \/ /\ scheme \in {"https", "http"}
          /\ ret' = ChainErr("hyper", "failed to make network request")
          /\ pc' = "backend_ret"
          /\ UNCHANGED <<fileSys, history>>
       \/ /\ scheme = "https" /\ BACKENDS[idx] = "Rustls"
          /\ pc' = "panicked"
          /\ UNCHANGED <<ret, fileSys, history>>
       \/ /\ scheme \in {"https", "http"}
          /\ scheme = "https" => BACKENDS[idx] # "Rustls"
          /\ IF status # 200
             THEN /\ ret' = HttpStatus(status)
                  /\ pc' = "backend_ret"
                  /\ UNCHANGED <<fileSys, history>>
             ELSE \/ /\ pc' = "body_loop"
                     /\ UNCHANGED <<ret, fileSys, history>>
                  \/ \E o \in Callback(ContentLength(Len(src))) :
                        /\ Invoke(ContentLength(Len(src)), o)
                        /\ IF o.res = Ok
                           THEN pc' = "body_loop" /\ UNCHANGED ret
                           ELSE ret' = o.res /\ pc' = "backend_ret"
    /\ UNCHANGED <<config, idx, attempts, outcomes, result, curlSt, env, handleSt, tlsSt>>

\* The body loop (lib.rs:578-587)
hyper_body_read ==
    /\ pc = "body_loop"
    /\ ReadLoop("error reading from socket")
    /\ UNCHANGED <<config, idx, attempts, outcomes, result, curlSt, netEntered, proxySt, handleSt, tlsSt>>

----------------------------------------------------------------------------
\* One call of download or download_to_path

Statuses == {200, 404, 500}

Init ==
    /\ entry \in {"download", "download_to_path"}
    /\ haveCb \in (IF entry = "download" THEN {TRUE} ELSE BOOLEAN)
    /\ compiled \in [Backend -> BOOLEAN]
    /\ scheme \in {"file", "http", "https", "data"}
    /\ status \in (IF scheme \in {"http", "https"} THEN Statuses ELSE {0})
    /\ srcIsFile \in (IF scheme = "file" THEN BOOLEAN ELSE {FALSE})
    /\ src \in (IF scheme = "data" \/ (scheme = "file" /\ ~srcIsFile)
                THEN {<<>>}
                ELSE {[i \in 1..n |-> i] : n \in 0..MaxLen})
    /\ pc = "loop"
    /\ idx = 1
    /\ attempts = <<>>
    /\ outcomes = <<>>
    /\ ret = None
    /\ result = None
    /\ pathIsFile \in (IF entry = "download" THEN {FALSE} ELSE BOOLEAN)
    /\ fileData = IF pathIsFile THEN <<0>> ELSE <<>>
    /\ synced = FALSE
    /\ emitted = <<>>
    /\ cbRet = <<>>
    /\ events = <<>>
    /\ cberr = None
    /\ aborted = FALSE
    /\ pos = 0
    /\ headers = 0
    /\ netEntered = FALSE
    /\ creates = 0
    /\ removed = "none"
    /\ atStart = NoFile
    /\ env = EmptyEnv
    /\ proxy = NoProxy
    /\ client = "none"
    /\ HandleUnused
    /\ TlsUnused

Next ==
    \/ download_loop
    \/ download_match
    \/ download_to_path_loop
    \/ download_to_path_match
    \/ create_file
    \/ backend_return
    \/ sync_file
    \/ cleanup
    \/ stub_download
    \/ curl_setup
    \/ curl_header
    \/ curl_write
    \/ curl_perform
    \/ curl_response_code
    \/ hyper_file_open
    \/ hyper_file_read
    \/ hyper_request
    \/ hyper_body_read

Spec == Init /\ [][Next]_vars

----------------------------------------------------------------------------
\* The proxy resolver on its own: the environment is set up, then
\* proxy_from_env is called for a URL

\* Most environment variables of ProxyVars set at once.
MaxEnvSet == 3

ProxySchemes == {"https", "http", "ftp"}

InitProxy ==
    /\ entry = "download"
    /\ haveCb = TRUE
    /\ compiled = [b \in Backend |-> TRUE]
    /\ scheme = "https"
    /\ status = 200
    /\ src = <<>>
    /\ srcIsFile = FALSE
    /\ pc = "env"
    /\ idx = 1
    /\ attempts = <<>>
    /\ outcomes = <<>>
    /\ ret = None
    /\ result = None
    /\ pathIsFile = FALSE
    /\ fileData = <<>>
    /\ synced = FALSE
    /\ emitted = <<>>
    /\ cbRet = <<>>
    /\ events = <<>>
    /\ cberr = None
    /\ aborted = FALSE
    /\ pos = 0
    /\ headers = 0
    /\ netEntered = FALSE
    /\ creates = 0
    /\ removed = "none"
    /\ atStart = NoFile
    /\ env = EmptyEnv
    /\ proxy = NoProxy
    /\ client = "none"
    /\ HandleUnused
    /\ TlsUnused

\* The environment the process starts in gets one more variable
set_var ==
    /\ pc = "env"
    /\ Cardinality({v \in ProxyVars : env[v].set}) < MaxEnvSet
    /\ \E v \in ProxyVars, t \in ProxyValues :
          /\ ~env[v].set
          /\ env' = [env EXCEPT ![v] = t]
    /\ UNCHANGED <<config, pc, idx, attempts, outcomes, ret, result, fileSys,
                   history, curlSt, pos, netEntered, proxy, client, handleSt, tlsSt>>

\* let maybe_proxy = proxy_from_env(url) and the client built from it
\* (lib.rs:545-563) for a URL of some scheme
resolve_proxy ==
    /\ pc = "env"
    /\ \E s \in ProxySchemes :
          /\ scheme' = s
          /\ proxy' = proxy_from_env(s, env)
          /\ client' = ClientFor(s, proxy_from_env(s, env))
    /\ pc' = "resolved"
    /\ UNCHANGED <<entry, haveCb, compiled, status, src, srcIsFile, idx, attempts,
                   outcomes, ret, result, fileSys, history, curlSt, pos,
                   netEntered, env, handleSt, tlsSt>>

NextProxy == set_var \/ resolve_proxy

SpecProxy == InitProxy /\ [][NextProxy]_vars

----------------------------------------------------------------------------
\* Properties of the fallback loops

Last(q) == q[Len(q)]

\* C1: download and download_to_path attempt the backends in the order Curl,
\* Hyper, Rustls, each at most once; a backend is attempted only after every
\* earlier one ended with BackendUnavailable; and when the first outcome
\* that is not BackendUnavailable arrives, the call returns exactly it.
C1_FallbackOrder ==
    /\ Len(attempts) <= Len(BACKENDS)
    /\ attempts = SubSeq(BACKENDS, 1, Len(attempts))
    /\ Len(outcomes) <= Len(attempts)
    /\ \A i \in 1..(Len(attempts) - 1) :
          i <= Len(outcomes) /\ outcomes[i].kind = "BackendUnavailable"
    /\ (pc = "returned" /\ outcomes # <<>>
            /\ Last(outcomes).kind # "BackendUnavailable")
          => result = Last(outcomes) /\ Len(outcomes) = Len(attempts)
    /\ (pc # "returned") => result = None

\* C1 witness: the first backend is unavailable, the second fails with an
\* HTTP status, and the call returned that failure without trying the third,
\* which is compiled in.
C1_Witness ==
    /\ pc = "returned"
    /\ attempts = <<"Curl", "Hyper">>
    /\ outcomes[1].kind = "BackendUnavailable"
    /\ result = HttpStatus(500)
    /\ compiled["Rustls"]

\* C2: when every backend ended with BackendUnavailable the call returns the
\* "no working backends" error, and no call ever returns BackendUnavailable.
C2_NoWorkingBackends ==
    pc = "returned" =>
        /\ result.kind # "BackendUnavailable"
        /\ (\A i \in 1..Len(outcomes) : outcomes[i].kind = "BackendUnavailable")
              => /\ result = Msg("no working backends")
                 /\ Len(outcomes) = Len(BACKENDS)

\* C2 witness: all three backends were tried, each ended with
\* BackendUnavailable, and the call returned "no working backends".
C2_Witness ==
    /\ pc = "returned"
    /\ Len(outcomes) = 3
    /\ \A i \in 1..3 : outcomes[i].kind = "BackendUnavailable"
    /\ result = Msg("no working backends")

----------------------------------------------------------------------------
\* Properties of the file sink

NoBackendCompiled == \A b \in Backend : ~compiled[b]

\* An attempt of download_to_path_with_backend has just returned
AttemptReturned == entry = "download_to_path" /\ pc = "match"

\* C3: a backend that is not compiled in performs no I/O and invokes no
\* callback, and when no backend is compiled in download_to_path creates no
\* file at the destination path.
C3_NoFileCreated ==
    NoBackendCompiled =>
        /\ emitted = <<>>
        /\ ~netEntered
        /\ entry = "download_to_path" => creates = 0

\* C4 as stated: whenever download_to_path_with_backend returns an error, no
\* file is left at path.
C4_FileDeletedOnError ==
    (AttemptReturned /\ IsErr(ret)) => ~pathIsFile

\* Every error return of an attempt went through the map_err closure, which
\* removed the file unless there was none or remove_file failed
C4_CleanupRan ==
    (AttemptReturned /\ IsErr(ret)) =>
        /\ removed \in {"ok", "failed", "skipped"}
        /\ removed # "failed" => ~pathIsFile

\* C4 (amended): whenever download_to_path_with_backend returns an error, it
\* has first tried to delete the file at path when path is a regular file, so
\* that no file is left there unless that deletion itself failed; the
\* deletion step hands on the error it received unchanged, whether the
\* deletion succeeded or not.
C4_BestEffortCleanup ==
    /\ []C4_CleanupRan
    /\ [][pc = "cleanup" => (pc' = "match" /\ ret' = ret /\ IsErr(ret))]_vars

\* C4 witness: an attempt wrote bytes to the file, failed, and returned its
\* error after the file was removed.
C4_Witness ==
    /\ AttemptReturned /\ IsErr(ret)
    /\ removed = "ok" /\ ~pathIsFile
    /\ Concat(emitted) # <<>>

\* C5: when download_to_path returns success, the file at path holds exactly
\* the bytes of the data events of the successful attempt, in order, and
\* sync_data succeeded after the last write.
C5_FileHoldsDownload ==
    (entry = "download_to_path" /\ pc = "returned" /\ result = Ok) =>
        /\ pathIsFile
        /\ fileData = Concat(emitted)
        /\ synced

\* C5 witness: a successful download to a path that held a file before, whose
\* body took more than one chunk and came with a content-length event, from
\* the second backend tried.
C5_Witness ==
    /\ entry = "download_to_path" /\ pc = "returned" /\ result = Ok
    /\ Len(attempts) = 2
    /\ creates = 2
    /\ Len(fileData) > BufferSize
    /\ \E i \in 1..Len(emitted) : emitted[i].type = "ContentLength"

----------------------------------------------------------------------------
\* Properties of the backends

\* The callback handed to the backend returned an error in this attempt, of
\* a kind the fallback loop does not take for a missing backend
CallbackFailed ==
    \E j \in 1..Len(cbRet) : cbRet[j].kind \notin {"Ok", "BackendUnavailable"}

\* C6: in every backend, once the callback returns an error it is not
\* invoked again, and the backend call, and with it the whole call, returns
\* that same error value (stated for the errors the fallback loop returns
\* as they are; an empty data chunk is a data event like any other).
C6_CallbackErrorReturned ==
    /\ \A j \in 1..(Len(cbRet) - 1) : cbRet[j] = Ok
    /\ (pc = "backend_ret" /\ CallbackFailed) => ret = Last(cbRet)
    /\ (pc = "returned" /\ CallbackFailed) => result = Last(cbRet)

\* The caller's callback failed on the latest event, a data event
CallerFailedOnData ==
    /\ entry = "download_to_path" /\ haveCb
    /\ cbRet # <<>>
    /\ Last(emitted).type = "Data"
    /\ Last(cbRet) = CallbackFailure

\* C7: in download_to_path_with_backend, when the caller's callback fails on
\* the k-th data event the file holds exactly the bytes of data events 1..k,
\* the attempt returns that exact failure, and the file has then been removed
\* (read here as the best-effort removal of C4: unless remove_file failed).
C7_CallbackFailureLeavesPrefix ==
    CallerFailedOnData =>
        /\ pc \in {"perform", "response_code", "backend_ret", "sync", "cleanup"}
              => fileData = Concat(emitted)
        /\ pc = "match"
              => /\ ret = Last(cbRet)
                 /\ removed # "failed" => ~pathIsFile

\* The current attempt runs hyper_base::download on a file: URL that names
\* an existing file
HyperFileAttempt ==
    /\ attempts # <<>>
    /\ download_with_backend(Last(attempts)) = "hyper_base"
    /\ scheme = "file" /\ srcIsFile

\* C8: for a file: URL naming an existing file the hyper-based backend emits
\* only data events, each non-empty and of at most BufferSize bytes, which
\* concatenate to a prefix of the file at every moment and to the whole file
\* when the backend returns success; the network path is never entered.
C8_FileFastPath ==
    /\ scheme = "file" => ~netEntered
    /\ HyperFileAttempt =>
          /\ \A i \in 1..Len(emitted) :
                /\ emitted[i].type = "Data"
                /\ Len(emitted[i].data) \in 1..BufferSize
          /\ Len(Concat(emitted)) <= Len(src)
          /\ Concat(emitted) = SubSeq(src, 1, Len(Concat(emitted)))
          /\ (pc = "backend_ret" /\ ret = Ok) => Concat(emitted) = src

\* C8 witness: the backend returned success for a file longer than one
\* buffer, after more than one data event.
C8_Witness ==
    /\ HyperFileAttempt
    /\ pc = "backend_ret" /\ ret = Ok
    /\ Len(src) > BufferSize
    /\ Len(emitted) >= 2
    /\ Concat(emitted) = src

\* C9: a missing local file and an HTTP 404 both end as FileNotFound (the
\* "resource not found" kind), and a 500 ends as HttpStatus(500).
C9_UniformNotFound ==
    (pc = "backend_ret" /\ download_with_backend(Last(attempts)) # "stub"
        /\ ret.kind \in {"Ok", "HttpStatus", "FileNotFound"}) =>
        /\ (scheme = "file" /\ ~srcIsFile) => ret.kind = "FileNotFound"
        /\ status = 404 => ret.kind = "FileNotFound"
        /\ status = 500 => ret = HttpStatus(500)

----------------------------------------------------------------------------
\* Properties of the proxy resolver

RECURSIVE FirstSet(_, _)
\* The value of the first variable of the list that is set in environment e
FirstSet(order, e) ==
    IF order = <<>> THEN Unset
    ELSE IF e[Head(order)].set THEN e[Head(order)]
    ELSE FirstSet(Tail(order), e)

\* The result expected when the setting v was selected, for the texts whose
\* reading is not in question: nothing set, or an http URL with a host (and
\* the port 9999 when it writes that port)
SelectedIs(v) ==
    /\ ~v.set => proxy = NoProxy
    /\ (v.set /\ v.unicode /\ v.scheme = "http" /\ v.host # "") =>
          /\ proxy.some
          /\ proxy.host = v.host
          /\ v.port = 9999 => proxy.port = 9999

\* The priority of C10 as stated: lower case then upper case for each setting
StatedOrder(s) ==
    CASE s = "https" -> <<"https_proxy", "HTTPS_PROXY", "http_proxy", "HTTP_PROXY",
                          "all_proxy", "ALL_PROXY">>
      [] s = "http" -> <<"http_proxy", "HTTP_PROXY", "all_proxy", "ALL_PROXY">>
      [] OTHER -> <<"all_proxy", "ALL_PROXY">>

\* The same priority without the upper-case HTTP_PROXY
ReadOrder(s) ==
    CASE s = "https" -> <<"https_proxy", "HTTPS_PROXY", "http_proxy",
                          "all_proxy", "ALL_PROXY">>
      [] s = "http" -> <<"http_proxy", "all_proxy", "ALL_PROXY">>
      [] OTHER -> <<"all_proxy", "ALL_PROXY">>

\* C10 as stated: the setting is selected by priority with both the
\* lower-case and the upper-case variable checked for each of the HTTPS, HTTP
\* and catch-all settings.
C10_BothCasesEachSetting ==
    pc = "resolved" => SelectedIs(FirstSet(StatedOrder(scheme), env))

\* C10 (amended): proxy_from_env selects by priority, for an https URL
\* https_proxy, HTTPS_PROXY, http_proxy, all_proxy, ALL_PROXY, for an http URL
\* http_proxy, all_proxy, ALL_PROXY, for any other scheme all_proxy,
\* ALL_PROXY; the upper-case HTTP_PROXY is never read; with none of the
\* variables read for the scheme set the result is no proxy.
C10_ProxyPriority ==
    pc = "resolved" => SelectedIs(FirstSet(ReadOrder(scheme), env))

\* C10 witness: an https URL with HTTPS_PROXY=http://proxy.example:9999,
\* https_proxy unset and lower-priority settings set resolves to
\* ("proxy.example", 9999).
C10_Witness ==
    /\ pc = "resolved" /\ scheme = "https"
    /\ ~env["https_proxy"].set
    /\ env["HTTPS_PROXY"] = EnvText(TRUE, "http", "proxy.example", 9999)
    /\ env["http_proxy"] = EnvText(TRUE, "http", "other.example", -1)
    /\ env["HTTP_PROXY"].set
    /\ proxy = SomeProxy("proxy.example", 9999)

----------------------------------------------------------------------------
\* An unusable proxy setting (C11) and the port of a usable one (C12)

\* The setting proxy_from_env selects for the resolved URL
Selected == FirstSet(ReadOrder(scheme), env)

\* The selected text is "", is not Unicode, has no scheme, or names no host
Unusable(v) == v.set /\ (~v.unicode \/ v.scheme = "" \/ v.host = "")

\* C11: when the setting selected by priority is not a parseable URL (the
\* empty text and a non-Unicode value included) or has no host, proxy_from_env
\* returns no proxy, whatever lower-priority settings hold, and the client of
\* an http or https download is the direct one.
C11_UnusableSettingMeansDirect ==
    (pc = "resolved" /\ Unusable(Selected)) =>
        /\ proxy = NoProxy
        /\ scheme = "https" => client = "https_direct"
        /\ scheme = "http" => client = "http_direct"

\* C11 witness: an https URL with https_proxy holding bytes that are not
\* Unicode and http_proxy=http://proxy.example:9999 gets no proxy and the
\* direct client.
C11_Witness ==
    /\ pc = "resolved" /\ scheme = "https"
    /\ env["https_proxy"] = EnvText(FALSE, "", "", -1)
    /\ env["http_proxy"] = EnvText(TRUE, "http", "proxy.example", 9999)
    /\ proxy = NoProxy
    /\ client = "https_direct"

\* C12: the proxy port is the port written in the selected setting whenever
\* one is written, the scheme's default port included, and 8080 only when the
\* setting writes none.
C12_WrittenPortReturned ==
    (pc = "resolved" /\ Selected.set /\ ~Unusable(Selected)) =>
        /\ proxy.some
        /\ Selected.port # -1 => proxy.port = Selected.port
        /\ proxy.port = 8080 => Selected.port \in {-1, 8080}

----------------------------------------------------------------------------
\* The event sequence of a transfer over the network (C13, C14)

\* The URL is fetched over the network
NetworkUrl == scheme \in {"http", "https"}

\* The running or last attempt used backend module m
AttemptOf(m) == attempts # <<>> /\ download_with_backend(Last(attempts)) = m

\* The number of content-length events in a sequence of events
ContentLengths(evs) ==
    Cardinality({i \in 1..Len(evs) : evs[i].type = "ContentLength"})

\* No content-length event comes after a data event
LengthBeforeData(evs) ==
    \A i, j \in 1..Len(evs) :
        (i < j /\ evs[i].type = "Data") => evs[j].type = "Data"

\* The data events carry a prefix of the body, in body order
InBodyOrder(evs) ==
    /\ Len(Concat(evs)) <= Len(src)
    /\ Concat(evs) = SubSeq(src, 1, Len(Concat(evs)))

\* Every data event is non-empty and fits the read buffer
ChunksFitBuffer(evs) ==
    \A i \in 1..Len(evs) :
        evs[i].type = "Data" =>
            (Len(evs[i].data) >= 1 /\ Len(evs[i].data) <= BufferSize)

\* C13: on the network path the events of one transfer hold at most one
\* content-length event, which precedes every data event; the data events
\* follow in body order, each non-empty and of at most BufferSize bytes in
\* the hyper backends; success is returned only after the whole body.
C13_EventProtocol ==
    NetworkUrl =>
        /\ ContentLengths(emitted) <= 1
        /\ LengthBeforeData(emitted)
        /\ InBodyOrder(emitted)
        /\ AttemptOf("hyper_base") => ChunksFitBuffer(emitted)
        /\ (pc = "backend_ret" /\ ret = Ok) => Concat(emitted) = src

\* The rest of C13, with the number of content-length events left open
C13_ExceptLengthCount ==
    NetworkUrl =>
        /\ AttemptOf("hyper_base") => ContentLengths(emitted) <= 1
        /\ LengthBeforeData(emitted)
        /\ InBodyOrder(emitted)
        /\ AttemptOf("hyper_base") => ChunksFitBuffer(emitted)
        /\ (pc = "backend_ret" /\ ret = Ok) => Concat(emitted) = src

\* C14: on the network path a response whose status is not a success status
\* makes the backend fail with the numeric status without any event having
\* been delivered to the callback, so no byte of the error response is
\* written to the destination file.
C14_ErrorResponseSilent ==
    (NetworkUrl /\ status # 200) =>
        /\ emitted = <<>>
        /\ (pc = "backend_ret" /\ ret.kind = "HttpStatus") => ret.code = status
        /\ (entry = "download_to_path" /\ creates > 0 /\ pc # "loop") =>
              fileData = <<>>

\* C14 for the hyper backends alone
C14_HyperOnly ==
    (NetworkUrl /\ status # 200 /\ AttemptOf("hyper_base")) =>
        /\ emitted = <<>>
        /\ (pc = "backend_ret" /\ ret.kind = "HttpStatus") => ret.code = status

----------------------------------------------------------------------------
\* The file sink's closure between the backend and the caller (C15)

\* download_to_path was called with Some(callback)
SinkWithCallback == entry = "download_to_path" /\ haveCb

\* An attempt has created the file and has not yet removed it
FileInUse == pc \notin {"loop", "create", "match", "returned"}

\* The bytes of the data events the caller has seen are in the file, in order
PassedOnAreWritten ==
    /\ Len(Concat(events)) <= Len(fileData)
    /\ Concat(events) = SubSeq(fileData, 1, Len(Concat(events)))

\* C15 as stated: with a caller callback, every event the backend emits is
\* passed to the caller's callback exactly once and in emission order, a data
\* event only after its bytes have been written to the file.
C15_EveryEventPassedOn ==
    SinkWithCallback =>
        /\ events = emitted
        /\ FileInUse => PassedOnAreWritten

\* C15 (amended): with a caller callback, the events passed to the caller's
\* callback are the events the backend emitted, each once and in emission
\* order, except a data event whose write to the file failed: that event,
\* the last one of the attempt, is not passed on; a data event is passed on
\* only after its bytes have been written to the file.
C15_EventsPassedOnAfterWrite ==
    SinkWithCallback =>
        /\ IF cbRet # <<>> /\ Last(cbRet) = WriteFailure
           THEN events = SubSeq(emitted, 1, Len(emitted) - 1)
           ELSE events = emitted
        /\ \A i \in 1..(Len(cbRet) - 1) : cbRet[i] # WriteFailure
        /\ FileInUse => PassedOnAreWritten

\* C15 witness: a backend returned Ok after a content-length event and two
\* data events, all three passed on and the bytes of both chunks on disk.
C15_Witness ==
    /\ SinkWithCallback
    /\ pc = "backend_ret" /\ ret = Ok
    /\ Len(events) = 3 /\ events = emitted
    /\ events[1].type = "ContentLength"
    /\ events[2].type = "Data" /\ events[3].type = "Data"
    /\ fileData = Concat(events) /\ Len(fileData) = 3

----------------------------------------------------------------------------
\* curl::download called again and again, on several threads and from inside
\* its own callback: what happens to the cached handle (lib.rs:137-215)

\* Most curl::download calls made in one behaviour
MaxCalls == 3
\* Most curl::download calls nested in one another on one thread
MaxDepth == 2

\* Everything of a single download call, untouched by the steps below
downloadSt == <<config, pc, idx, attempts, outcomes, ret, result, fileSys, history,
                curlSt, pos, netEntered, proxySt>>

InitCurl ==
    /\ entry = "download"
    /\ haveCb = TRUE
    /\ compiled = [b \in Backend |-> TRUE]
    /\ scheme = "http"
    /\ status = 200
    /\ src = <<>>
    /\ srcIsFile = FALSE
    /\ pc = "handle"
    /\ idx = 1
    /\ attempts = <<>>
    /\ outcomes = <<>>
    /\ ret = None
    /\ result = None
    /\ pathIsFile = FALSE
    /\ fileData = <<>>
    /\ synced = FALSE
    /\ emitted = <<>>
    /\ cbRet = <<>>
    /\ events = <<>>
    /\ cberr = None
    /\ aborted = FALSE
    /\ pos = 0
    /\ headers = 0
    /\ netEntered = FALSE
    /\ creates = 0
    /\ removed = "none"
    /\ atStart = NoFile
    /\ env = EmptyEnv
    /\ proxy = NoProxy
    /\ client = "none"
    /\ HandleUnused
    /\ TlsUnused

\* The innermost call in progress on thread t
Top(t) == stack[t][Len(stack[t])]
\* The calls around it
Outer(t) == SubSeq(stack[t], 1, Len(stack[t]) - 1)
\* The innermost call moves to position p, holding the RefMut or not
TopAt(t, p, g) == [stack[t] EXCEPT ![Len(stack[t])].pc = p, ![Len(stack[t])].guard = g]

\* Mutant: the handle is handed out without the RefCell's check
borrow_mut_unchecked(flag) == "ok"

\* RefCell::borrow_mut (lib.rs:139): panics when the cell is already borrowed
borrow_mut(flag) == IF flag THEN "panic" ELSE "ok"

\* The number of option and callback setters of lib.rs:141-187
Setters == 7

\* Mutant: the options are set only on a handle that has no URL yet
ConfigureFreshOnly(h, u, id, k) ==
    IF h.url # "" THEN [h EXCEPT !.callbacks = IF k = Setters THEN id ELSE 0]
    ELSE [url |-> IF k >= 1 THEN u ELSE h.url,
          follow_location |-> IF k >= 2 THEN TRUE ELSE h.follow_location,
          connect_timeout |-> IF k >= 3 THEN ConnectTimeout ELSE h.connect_timeout,
          low_speed_limit |-> IF k >= 4 THEN LowSpeedLimit ELSE h.low_speed_limit,
          low_speed_time |-> IF k >= 5 THEN LowSpeedTime ELSE h.low_speed_time,
          callbacks |-> IF k = Setters THEN id ELSE 0]

\* The handle after the first k setters of lib.rs:141-187 succeeded for the
\* call id asking for u (each is under try!, so the next ones did not run):
\* url, follow_location, connect_timeout, low_speed_limit, low_speed_time,
\* then the transfer's write_function and header_function, which stay
\* installed only while the Transfer lives
Configure(h, u, id, k) ==
    [url |-> IF k >= 1 THEN u ELSE h.url,
     follow_location |-> IF k >= 2 THEN TRUE ELSE h.follow_location,
     connect_timeout |-> IF k >= 3 THEN ConnectTimeout ELSE h.connect_timeout,
     low_speed_limit |-> IF k >= 4 THEN LowSpeedLimit ELSE h.low_speed_limit,
     low_speed_time |-> IF k >= 5 THEN LowSpeedTime ELSE h.low_speed_time,
     callbacks |-> IF k = Setters THEN id ELSE 0]

\* curl::download(url, callback) is called on thread t (lib.rs:129-138),
\* from the thread's own code or from the callback of a transfer that is
\* being performed on t
curl_download(t) ==
    /\ pc = "handle"
    /\ started < MaxCalls
    /\ Len(stack[t]) < MaxDepth
    /\ stack[t] # <<>> => Top(t).pc = "perform"
    /\ \E u \in Urls :
          stack' = [stack EXCEPT ![t] =
                       Append(@, [id |-> started + 1, url |-> u, pc |-> "borrow",
                                  guard |-> FALSE])]
    /\ started' = started + 1
    /\ UNCHANGED <<downloadSt, tlsSt, easy, borrowed, last>>

\* let mut handle = handle.borrow_mut() (lib.rs:139)
curl_borrow(t) ==
    /\ stack[t] # <<>> /\ Top(t).pc = "borrow"
    /\ IF borrow_mut(borrowed[t]) = "ok"
       THEN /\ borrowed' = [borrowed EXCEPT ![t] = TRUE]
            /\ stack' = [stack EXCEPT ![t] = TopAt(t, "configure", TRUE)]
       ELSE /\ stack' = [stack EXCEPT ![t] = TopAt(t, "panicked", FALSE)]
            /\ UNCHANGED borrowed
    /\ UNCHANGED <<downloadSt, tlsSt, easy, started, last>>

\* The setters (lib.rs:141-187): all succeed and the transfer starts, or one
\* fails and the call returns its error, dropping the RefMut
curl_configure(t) ==
    /\ stack[t] # <<>> /\ Top(t).pc = "configure"
    /\ \E k \in 0..Setters :
          /\ easy' = [easy EXCEPT ![t] = Configure(@, Top(t).url, Top(t).id, k)]
          /\ IF k = Setters
             THEN /\ stack' = [stack EXCEPT ![t] = TopAt(t, "perform", TRUE)]
                  /\ UNCHANGED <<borrowed, last>>
             ELSE /\ stack' = [stack EXCEPT ![t] = Outer(t)]
                  /\ borrowed' = [borrowed EXCEPT ![t] = FALSE]
                  /\ last' = [last EXCEPT ![t] =
                                 [url |-> Top(t).url, outcome |-> "setup_error"]]
    /\ UNCHANGED <<downloadSt, tlsSt, started>>

\* transfer.perform() ends, the Transfer is dropped and the call returns
\* (lib.rs:191-215), with Ok or with an error
curl_return(t) ==
    /\ stack[t] # <<>> /\ Top(t).pc = "perform"
    /\ easy' = [easy EXCEPT ![t].callbacks = 0]
    /\ stack' = [stack EXCEPT ![t] = Outer(t)]
    /\ borrowed' = [borrowed EXCEPT ![t] = FALSE]
    /\ \E o \in {"ok", "error"} :
          last' = [last EXCEPT ![t] = [url |-> Top(t).url, outcome |-> o]]
    /\ UNCHANGED <<downloadSt, tlsSt, started>>

\* A panicking call unwinds: what it holds is dropped, and the panic goes on
\* through the transfer whose callback made the call
curl_unwind(t) ==
    /\ stack[t] # <<>> /\ Top(t).pc = "panicked"
    /\ stack' = [stack EXCEPT ![t] =
                    IF Outer(t) = <<>> THEN <<>>
                    ELSE [Outer(t) EXCEPT ![Len(Outer(t))].pc = "panicked"]]
    /\ IF Top(t).guard
       THEN /\ borrowed' = [borrowed EXCEPT ![t] = FALSE]
            /\ easy' = [easy EXCEPT ![t].callbacks = 0]
       ELSE UNCHANGED <<borrowed, easy>>
    /\ last' = [last EXCEPT ![t] = [url |-> Top(t).url, outcome |-> "panicked"]]
    /\ UNCHANGED <<downloadSt, tlsSt, started>>

NextCurl ==
    \E t \in Threads :
        \/ curl_download(t)
        \/ curl_borrow(t)
        \/ curl_configure(t)
        \/ curl_return(t)
        \/ curl_unwind(t)

SpecCurl == InitCurl /\ [][NextCurl]_vars

\* The options and callbacks a transfer of call f must run with
ConfiguredFor(f) ==
    [url |-> f.url, follow_location |-> TRUE, connect_timeout |-> ConnectTimeout,
     low_speed_limit |-> LowSpeedLimit, low_speed_time |-> LowSpeedTime,
     callbacks |-> f.id]

\* C16: whatever calls came before on the thread, failed or aborted ones
\* included, while a call's transfer is being performed the cached handle
\* carries that call's URL, redirect following, the 30 s connect timeout, the
\* low-speed limit of 10 bytes per 30 s and that call's callbacks.
C16_TransferUsesOwnConfiguration ==
    \A t \in Threads : \A i \in 1..Len(stack[t]) :
        stack[t][i].pc = "perform" => easy[t] = ConfiguredFor(stack[t][i])

\* C16 witness: on a thread whose last call, for another URL, failed in a
\* setter after it had set its URL, a transfer is being performed.
C16_Witness ==
    \E t \in Threads :
        /\ stack[t] # <<>> /\ Top(t).pc = "perform"
        /\ last[t].outcome = "setup_error" /\ last[t].url # Top(t).url
        /\ easy[t].url = Top(t).url

\* The calls on thread t that hold the thread's handle
Holders(t) == {i \in 1..Len(stack[t]) : stack[t][i].guard}

\* C17: a thread's cached handle is held by at most one call at a time: a
\* call that configures or performs holds it from borrow_mut to its return,
\* also while its callback calls download again on the same thread, and each
\* thread's calls use only that thread's handle.
C17_HandleExclusive ==
    \A t \in Threads :
        /\ Cardinality(Holders(t)) <= 1
        /\ borrowed[t] <=> Holders(t) # {}
        /\ \A i \in 1..Len(stack[t]) :
              stack[t][i].pc \in {"configure", "perform"} => stack[t][i].guard
        /\ easy[t].callbacks # 0 =>
              \E i \in Holders(t) : stack[t][i].id = easy[t].callbacks

\* C17 witness: while a transfer is being performed on a thread, its callback
\* called download again and that call found the handle borrowed; another
\* thread holds its own handle at the same time.
C17_Witness ==
    \E t, u \in Threads :
        /\ t # u
        /\ Len(stack[t]) = 2
        /\ stack[t][1].pc = "perform" /\ stack[t][1].guard
        /\ stack[t][2].pc = "panicked" /\ ~stack[t][2].guard
        /\ stack[u] # <<>> /\ Top(u).guard

----------------------------------------------------------------------------
\* The TLS stream adapter in use: clones of one NativeSslStream, each owner
\* calling the NetworkStream, Read and Write operations (lib.rs:272-335 for
\* native-tls, lib.rs:422-505 for rustls)

\* Most operations called in one behaviour
MaxOps == 4
\* Most records the peer sends
MaxRecords == 2

\* Ok(NativeSslStream(Arc::new(Mutex::new(..)))) (lib.rs:268, lib.rs:392) and
\* its clones; the peer has some records under way.  The rustls value exists
\* once global_config() has returned, that is with find_root_cert_paths
\* (lib.rs:417-419, a placeholder that panics in this revision) giving the
\* list of certificate paths.
InitTls ==
    /\ entry = "download"
    /\ haveCb = TRUE
    /\ compiled = [b \in Backend |-> TRUE]
    /\ scheme = "https"
    /\ status = 200
    /\ src = <<>>
    /\ srcIsFile = FALSE
    /\ pc = "tls"
    /\ idx = 1
    /\ attempts = <<>>
    /\ outcomes = <<>>
    /\ ret = None
    /\ result = None
    /\ pathIsFile = FALSE
    /\ fileData = <<>>
    /\ synced = FALSE
    /\ emitted = <<>>
    /\ cbRet = <<>>
    /\ events = <<>>
    /\ cberr = None
    /\ aborted = FALSE
    /\ pos = 0
    /\ headers = 0
    /\ netEntered = FALSE
    /\ creates = 0
    /\ removed = "none"
    /\ atStart = NoFile
    /\ env = EmptyEnv
    /\ proxy = NoProxy
    /\ client = "none"
    /\ HandleUnused
    /\ tlsKind \in {"native", "rustls"}
    /\ mutex = FreeMutex
    /\ call = [c \in Clones |-> Idle]
    /\ session = EmptySession
    /\ wire \in 0..MaxRecords
    /\ sent = 0
    /\ issued = 0

\* rustls::Session::wants_read (lib.rs:471): true while the session holds no
\* plaintext to hand out
wants_read(s) == s.plain = 0
\* Mutant: the loop of write stops with one record still queued
wants_write_above_one(s) == s.out > 1

\* rustls::Session::wants_write (lib.rs:491): true while TLS bytes are queued
wants_write(s) == s.out > 0

\* Mutant: a poisoned mutex is entered like a healthy one
LockIgnoringPoison(m) == "guard"

\* self.0.lock().map_err(..) (lib.rs:287-292, lib.rs:437-442) once the mutex
\* is available: the guard, or the io::Error of kind Other made from
\* NativeSslPoisonError when the mutex is poisoned
LockResult(m) == IF m.poisoned THEN "poison_error" ELSE "guard"

\* Mutant: the guard is dropped on the success path only
ReleaseOnSuccessOnly(m, outcome) ==
    IF outcome = "ok" THEN [holder |-> "none", poisoned |-> m.poisoned] ELSE m

\* The MutexGuard goes out of scope at the end of the and_then closure, or is
\* dropped by unwinding, which poisons the mutex
Release(m, outcome) ==
    [holder |-> "none", poisoned |-> m.poisoned \/ outcome = "panic"]

\* The operation of clone c ends with outcome r, having called into the
\* stream or session
Finish(c, r) ==
    /\ call' = [call EXCEPT ![c].pc = "done", ![c].res = r, ![c].touched = TRUE]
    /\ mutex' = Release(mutex, r)

\* .unwrap() on an Err (lib.rs:472, 473, 492): the operation panics
Unwrap(c) == Finish(c, "panic")

\* The owner of clone c calls an operation of the adapter
tls_call(c) ==
    /\ pc = "tls"
    /\ call[c].pc \in {"idle", "done"}
    /\ issued < MaxOps
    /\ \E o \in StreamOps :
          call' = [call EXCEPT ![c] =
                      [op |-> o, pc |-> "lock", res |-> "none", touched |-> FALSE,
                       lap |-> 0]]
    /\ issued' = issued + 1
    /\ UNCHANGED <<downloadSt, handleSt, tlsKind, mutex, session, wire, sent>>

\* self.lock() (lib.rs:287-292, lib.rs:437-442): Mutex::lock waits until the
\* mutex is free; a poisoned mutex gives the error and the guard is dropped
\* at once
tls_lock(c) ==
    /\ call[c].pc = "lock"
    /\ mutex.holder = "none"
    /\ IF LockResult(mutex) = "guard"
       THEN /\ mutex' = [mutex EXCEPT !.holder = c]
            /\ call' = [call EXCEPT ![c].pc = "inside"]
       ELSE /\ call' = [call EXCEPT ![c].pc = "done", ![c].res = "poison_error"]
            /\ UNCHANGED mutex
    /\ UNCHANGED <<downloadSt, handleSt, tlsKind, session, wire, sent, issued>>

\* The and_then closures that make one call on the inner stream
\* (lib.rs:294-335; lib.rs:444-463 and lib.rs:499-504): its io::Result is the
\* operation's result
tls_inner(c) ==
    /\ call[c].pc = "inside"
    /\ tlsKind = "native" \/ call[c].op \notin {"read", "write"}
    /\ \E r \in {"ok", "io_error"} :
          /\ Finish(c, r)
          /\ wire' = IF r = "ok" /\ call[c].op = "read" /\ wire > 0
                     THEN wire - 1 ELSE wire
          /\ sent' = IF r = "ok" /\ call[c].op = "write" THEN sent + 1 ELSE sent
    /\ UNCHANGED <<downloadSt, handleSt, tlsKind, session, issued>>

\* One iteration of the loop of rustls read (lib.rs:471-474):
\* read_tls(stream).unwrap() then process_new_packets().unwrap().  With no
\* record left the stream is at end-of-file: read_tls returns Ok(0) and the
\* session is as before.
rustls_read_tls(c) ==
    /\ tlsKind = "rustls" /\ call[c].op = "read" /\ call[c].pc = "inside"
    /\ wants_read(session)
    /\ \/ /\ Unwrap(c)
          /\ UNCHANGED <<session, wire>>
       \/ /\ wire > 0
          /\ wire' = wire - 1
          /\ \/ /\ Unwrap(c)
                /\ UNCHANGED session
             \/ /\ \E d \in {0, 1} : session' = [session EXCEPT !.plain = @ + d]
                /\ call' = [call EXCEPT ![c].touched = TRUE, ![c].lap = 1 - @]
                /\ UNCHANGED mutex
       \/ /\ wire = 0
          /\ call' = [call EXCEPT ![c].touched = TRUE, ![c].lap = 1 - @]
          /\ UNCHANGED <<mutex, session, wire>>
    /\ UNCHANGED <<downloadSt, handleSt, tlsKind, sent, issued>>

\* tls.read(buf) after the loop (lib.rs:476): its result is returned
rustls_read_plain(c) ==
    /\ tlsKind = "rustls" /\ call[c].op = "read" /\ call[c].pc = "inside"
    /\ ~wants_read(session)
    /\ \/ /\ Finish(c, "ok")
          /\ \E n \in 1..session.plain : session' = [session EXCEPT !.plain = @ - n]
       \/ /\ Finish(c, "io_error")
          /\ UNCHANGED session
    /\ UNCHANGED <<downloadSt, handleSt, tlsKind, wire, sent, issued>>

\* let res = tls.write(buf) (lib.rs:489)
rustls_write_plain(c) ==
    /\ tlsKind = "rustls" /\ call[c].op = "write" /\ call[c].pc = "inside"
    /\ \/ /\ call' = [call EXCEPT ![c].pc = "write_loop", ![c].res = "ok",
                                  ![c].touched = TRUE]
          /\ session' = [session EXCEPT !.out = @ + 1]
       \/ /\ call' = [call EXCEPT ![c].pc = "write_loop", ![c].res = "io_error",
                                  ![c].touched = TRUE]
          /\ UNCHANGED session
    /\ UNCHANGED <<downloadSt, handleSt, tlsKind, mutex, wire, sent, issued>>

\* One iteration of the loop of rustls write (lib.rs:491-493):
\* write_tls(stream).unwrap(); the stream may take a record or nothing
rustls_write_tls(c) ==
    /\ tlsKind = "rustls" /\ call[c].pc = "write_loop"
    /\ wants_write(session)
    /\ \/ /\ Unwrap(c)
          /\ UNCHANGED <<session, sent>>
       \/ /\ session' = [session EXCEPT !.out = @ - 1]
          /\ sent' = sent + 1
          /\ call' = [call EXCEPT ![c].lap = 1 - @]
          /\ UNCHANGED mutex
       \/ /\ call' = [call EXCEPT ![c].lap = 1 - @]
          /\ UNCHANGED <<mutex, session, sent>>
    /\ UNCHANGED <<downloadSt, handleSt, tlsKind, wire, issued>>

\* res (lib.rs:495) after the loop
rustls_write_return(c) ==
    /\ tlsKind = "rustls" /\ call[c].pc = "write_loop"
    /\ ~wants_write(session)
    /\ Finish(c, call[c].res)
    /\ UNCHANGED <<downloadSt, handleSt, tlsKind, session, wire, sent, issued>>

NextTls ==
    \E c \in Clones :
        \/ tls_call(c)
        \/ tls_lock(c)
        \/ tls_inner(c)
        \/ rustls_read_tls(c)
        \/ rustls_read_plain(c)
        \/ rustls_write_plain(c)
        \/ rustls_write_tls(c)
        \/ rustls_write_return(c)

SpecTls == InitTls /\ [][NextTls]_vars

\* A thread inside an operation keeps running: every step of an operation
\* that stays possible is taken in the end.  The owners need not call again.
FairTls ==
    \A c \in Clones :
        /\ WF_vars(tls_lock(c))
        /\ WF_vars(tls_inner(c))
        /\ WF_vars(rustls_read_tls(c))
        /\ WF_vars(rustls_read_plain(c))
        /\ WF_vars(rustls_write_plain(c))
        /\ WF_vars(rustls_write_tls(c))
        /\ WF_vars(rustls_write_return(c))

SpecTlsFair == SpecTls /\ FairTls

\* Clone c's operation returns or panics in this step
Ends(c) == call[c].pc # "done" /\ call'[c].pc = "done"

\* C18: once the lock is poisoned, every operation that ends (read, write,
\* flush, peer_addr, set_read_timeout, set_write_timeout, close, through any
\* clone) returns the I/O error of kind Other without having called into the
\* stream or the session, nothing of the stream or session changes, and none
\* panics.
C18_PoisonedLockOnlyErrors ==
    [][mutex.poisoned =>
          /\ \A c \in Clones :
                Ends(c) => (call'[c].res = "poison_error" /\ ~call'[c].touched)
          /\ \A c \in Clones : call'[c].touched = call[c].touched \/ ~call'[c].touched
          /\ UNCHANGED <<mutex, session, wire, sent>>]_vars

\* C18 witness: after a panic in one clone's read poisoned the lock, a close
\* through the other clone returned the poison error.
C18_Witness ==
    /\ mutex.poisoned
    /\ call["c1"].op = "read" /\ call["c1"].res = "panic"
    /\ call["c2"].op = "close" /\ call["c2"].pc = "done"
    /\ call["c2"].res = "poison_error" /\ ~call["c2"].touched

\* C19: read and write report every failure of the underlying stream or of
\* the TLS session as a returned I/O error and never panic.
C19_FailuresReturned ==
    \A c \in Clones :
        call[c].op \in {"read", "write"} => call[c].res # "panic"

\* Clone c's operation is between taking the guard and dropping it
InCriticalSection(c) == call[c].pc \in {"inside", "write_loop"}

\* C20: the lock is held exactly by a clone whose operation is between its
\* start and its return: it is taken at the start of each operation, released
\* when the operation returns with success or with an error, never held
\* between operations, and so at most one operation runs at a time and no
\* finished operation keeps the lock from a waiting one.
C20_LockScopedToOperation ==
    /\ \A c \in Clones : InCriticalSection(c) <=> mutex.holder = c
    /\ Cardinality({c \in Clones : InCriticalSection(c)}) <= 1
    /\ mutex.holder # "none" => mutex.holder \in Clones

\* C20 witness: one clone's operation returned an I/O error and the other
\* clone, which had been waiting, now runs its operation with the lock.
C20_Witness ==
    /\ call["c1"].pc = "done" /\ call["c1"].res = "io_error"
    /\ call["c2"].pc = "inside" /\ mutex.holder = "c2"
    /\ issued = 2

----------------------------------------------------------------------------
\* The loops of the rustls adapter's read and write (C21, C22)

\* Clone c's operation returns a Result in this step (it does not panic and
\* it got past the lock)
Returns(c) == Ends(c) /\ call'[c].res \in {"ok", "io_error"}

\* C21: in the rustls adapter a read that returns took its bytes from the
\* session only when the drain loop had left plaintext in it (the session no
\* longer wanted to read); records reach the underlying stream only after
\* write handed its plaintext to the session; and when write returns the
\* session holds no encrypted bytes any more.
C21_DrainBeforeTransfer ==
    [][tlsKind = "rustls" =>
          /\ \A c \in Clones :
                (Returns(c) /\ call[c].op = "read") =>
                    (call[c].pc = "inside" /\ session.plain > 0)
          /\ \A c \in Clones :
                (Returns(c) /\ call[c].op = "write") =>
                    (call[c].pc = "write_loop" /\ session'.out = 0)
          /\ sent' # sent =>
                \E c \in Clones : call[c].op = "write" /\ call[c].pc = "write_loop"
          /\ session'.plain < session.plain =>
                \E c \in Clones : Returns(c) /\ call[c].op = "read"]_vars

\* C21 witness: a write through one clone returned Ok with its record handed
\* to the stream and nothing left in the session, and a read through the
\* other clone returned Ok after a record had been drained.
C21_Witness ==
    /\ tlsKind = "rustls"
    /\ call["c1"].op = "write" /\ call["c1"].pc = "done" /\ call["c1"].res = "ok"
    /\ sent = 1 /\ session.out = 0
    /\ call["c2"].op = "read" /\ call["c2"].pc = "done" /\ call["c2"].res = "ok"
    /\ wire < MaxRecords

\* Clone c is inside the read or the write of the rustls adapter
InRustlsTransfer(c) ==
    /\ tlsKind = "rustls"
    /\ call[c].op \in {"read", "write"}
    /\ call[c].pc \in {"inside", "write_loop"}

\* C22: every read and write of the rustls adapter that has started
\* eventually ends: its drain loop leaves after finitely many iterations,
\* also when the underlying stream is at end-of-file or takes no bytes.
C22_CallsReturn ==
    \A c \in Clones : InRustlsTransfer(c) ~> (call[c].pc = "done")

----------------------------------------------------------------------------
\* A file that is already at the destination (C23)

\* download_to_path_with_backend was called with a regular file at path
PreExisting == entry = "download_to_path" /\ attempts # <<>> /\ atStart.isFile

\* The file at path still holds the content it held when the attempt was
\* called, content from before the call of download_to_path (<<0>>, a byte
\* no resource holds, so no attempt wrote it)
ContentInPlace == pathIsFile /\ atStart.data = <<0>> /\ fileData = <<0>>

\* The call of download_to_path has returned an error with the content of
\* the file that was there before the call still at path
FailedWithOldContent ==
    /\ entry = "download_to_path" /\ pc = "returned" /\ IsErr(result)
    /\ pathIsFile /\ fileData = <<0>>

\* C23 as stated: a regular file that exists at path before the attempt is
\* truncated when the attempt starts and no longer exists after any failed
\* attempt, so a failed download_to_path never leaves the old content.
C23_OldFileGone ==
    /\ (PreExisting /\ pc \in {"dispatch", "cleanup"} /\ emitted = <<>>) =>
          fileData = <<>>
    /\ (PreExisting /\ AttemptReturned /\ IsErr(ret)) => ~pathIsFile
    /\ ~FailedWithOldContent

\* C23 (amended): a regular file that exists at path before the attempt is
\* truncated once File::create has succeeded; after any failed attempt, one
\* that fails only with BackendUnavailable or with a file-creation error
\* included, its removal has been attempted, so it no longer exists unless
\* the removal failed; the old content is left in place after a failed
\* attempt, and after a failed download_to_path, only when both File::create
\* and the removal failed.
C23_OldFileGoneBestEffort ==
    /\ (PreExisting /\ pc \in {"dispatch", "cleanup"} /\ emitted = <<>>
          /\ ret # CreateError) => fileData = <<>>
    /\ (PreExisting /\ AttemptReturned /\ IsErr(ret)) =>
          /\ removed \in {"ok", "failed"}
          /\ removed = "ok" => ~pathIsFile
          /\ ContentInPlace => (ret = CreateError /\ removed = "failed")
    /\ FailedWithOldContent => (result = CreateError /\ removed = "failed")

\* C23 witness: an attempt called with a file holding old content at path
\* failed only with BackendUnavailable, and the file is gone.
C23_Witness ==
    /\ PreExisting /\ atStart.data = <<0>>
    /\ AttemptReturned /\ ret.kind = "BackendUnavailable"
    /\ creates = 1 /\ removed = "ok" /\ ~pathIsFile

====
